---- MODULE Spec2Model ----
(***************************************************************************)
(* A model of the scli command tree: Command.Parse, Command.Run and        *)
(* Command.ParseAndRun (scli.go), the argument validators (args.go) and    *)
(* the error values (ErrUnparsed, ErrInvalidArguments, NoExecError).       *)
(*                                                                         *)
(* Strings are sequences of one-character strings, so that Name, EqualFold *)
(* and the flag tokeniser work on characters as the Go code does.          *)
(* flag.FlagSet is the standard library's: FlagSetParse follows its        *)
(* Parse/parseOne, with the error handling mode the Command was given (or  *)
(* flag.ExitOnError for the FlagSet that Command.Parse creates itself).    *)
(* Every Command owns its FlagSet.                                         *)
(***************************************************************************)
EXTENDS Integers, Sequences, FiniteSets, TLC

\* ------------------------------------------------------------------ bounds

\* longest argument vector handed to Parse / ParseAndRun / a validator
MaxArgs == 2
\* number of Parse / Run / ParseAndRun calls made on one tree
MaxCalls == 2
\* largest count handed to MinArgs, MaxArgs, ExactArgs, RangeArgs
MaxN == 2

\* ------------------------------------------------------------------ strings

Str_sub == <<"s", "u", "b">>
Str_FB == <<"F", "B">>
Str_fb == <<"f", "b">>
Str_x == <<"x">>
Str_h == <<"-", "h">>
Str_dd == <<"-", "-">>
Str_b == <<"-", "b">>

\* the tokens argument vectors are made of
Tokens == {Str_sub, Str_FB, Str_x, Str_h, Str_dd, Str_b}

ArgVectors == UNION {[1..n -> Tokens] : n \in 0..MaxArgs}

UpperChars == <<"A", "B", "C", "D", "E", "F", "G", "H", "I", "J", "K", "L", "M",
                "N", "O", "P", "Q", "R", "S", "T", "U", "V", "W", "X", "Y", "Z">>
LowerChars == <<"a", "b", "c", "d", "e", "f", "g", "h", "i", "j", "k", "l", "m",
                "n", "o", "p", "q", "r", "s", "t", "u", "v", "w", "x", "y", "z">>

\* simple case folding of one character
FoldChar(ch) ==
    IF \E i \in 1..Len(UpperChars) : UpperChars[i] = ch
    THEN LowerChars[CHOOSE i \in 1..Len(UpperChars) : UpperChars[i] = ch]
    ELSE ch

\* strings.EqualFold
EqualFold(s, t) ==
    /\ Len(s) = Len(t)
    /\ \A i \in 1..Len(s) : FoldChar(s[i]) = FoldChar(t[i])

\* strings.Index(s, ch): the first position of ch (1-based), 0 when absent
IndexOf(s, ch) ==
    IF \E i \in 1..Len(s) : s[i] = ch
    THEN CHOOSE i \in 1..Len(s) : s[i] = ch /\ \A j \in 1..(i - 1) : s[j] # ch
    ELSE 0

\* s[from:] of Go, with 1-based from
Tail2(s, from) == SubSeq(s, from, Len(s))

\* ------------------------------------------------------------------ errors

NoMsg == [text |-> "", n |-> 0, m |-> 0, got |-> 0, arg |-> <<>>]

\* the nil error
Nil == [chain |-> <<>>, text |-> "", detail |-> NoMsg, cmd |-> 0]

ErrUnparsed ==
    [chain |-> <<"ErrUnparsed">>, text |-> "command tree is unparsed, can't run",
     detail |-> NoMsg, cmd |-> 0]

ErrInvalidArguments ==
    [chain |-> <<"ErrInvalidArguments">>, text |-> "invalid arguments",
     detail |-> NoMsg, cmd |-> 0]

\* flag.ErrHelp
ErrHelp ==
    [chain |-> <<"flag.ErrHelp">>, text |-> "flag: help requested",
     detail |-> NoMsg, cmd |-> 0]

NoExecError(c) ==
    [chain |-> <<"NoExecError">>, text |-> "terminal command does not define a Exec function",
     detail |-> NoMsg, cmd |-> c]

\* errors.New / fmt.Errorf without %w: a fresh error carrying only its message
NewError(msg) == [chain |-> <<"errorString">>, text |-> msg.text, detail |-> msg, cmd |-> 0]

\* fmt.Errorf("%w: %s", target, err.Error())
Wrap(target, err) ==
    [chain |-> <<"wrapError">> \o target.chain, text |-> target.text,
     detail |-> err.detail, cmd |-> 0]

\* errors.Is(err, target): target's identity occurs in err's chain
ErrorsIs(err, target) ==
    \E i \in 1..Len(err.chain) : err.chain[i] = target.chain[1]

\* ------------------------------------------------------------------ validators

\* an ArgsValidator value: the nil function, or one of the closures of args.go
NilValidator == [kind |-> "nil", n |-> 0, m |-> 0, valid |-> <<>>, subs |-> <<>>]

NoArgs == [kind |-> "NoArgs", n |-> 0, m |-> 0, valid |-> <<>>, subs |-> <<>>]

MinArgs(n) == [kind |-> "MinArgs", n |-> n, m |-> 0, valid |-> <<>>, subs |-> <<>>]

MaxArgsV(n) == [kind |-> "MaxArgs", n |-> n, m |-> 0, valid |-> <<>>, subs |-> <<>>]

ExactArgs(n) == [kind |-> "ExactArgs", n |-> n, m |-> 0, valid |-> <<>>, subs |-> <<>>]

RangeArgs(min, max) ==
    [kind |-> "RangeArgs", n |-> min, m |-> max, valid |-> <<>>, subs |-> <<>>]

\* OnlyValidArgs without its first three lines: a closure for every validArgs
OnlyValidArgsNoGuard(validArgs) ==
    [kind |-> "OnlyValidArgs", n |-> 0, m |-> 0, valid |-> validArgs, subs |-> <<>>]

OnlyValidArgs(validArgs) ==
    IF Len(validArgs) = 0
    THEN NilValidator
    ELSE [kind |-> "OnlyValidArgs", n |-> 0, m |-> 0, valid |-> validArgs, subs |-> <<>>]

CombineValidator(validators) ==
    [kind |-> "Combine", n |-> 0, m |-> 0, valid |-> <<>>, subs |-> validators]

\* the outcome of calling a validator: it returned nil, returned an error, or
\* the call panicked (a call of a nil function value)
VOk == [out |-> "ok", err |-> Nil]
VFail(text, n, m, got, arg) ==
    [out |-> "fail",
     err |-> NewError([text |-> text, n |-> n, m |-> m, got |-> got, arg |-> arg])]
VPanic == [out |-> "panic", err |-> Nil]

\* the first element of args that is not in valid (0 when all are)
FirstInvalid(valid, args) ==
    LET bad == {i \in 1..Len(args) : \A j \in 1..Len(valid) : valid[j] # args[i]}
    IN IF bad = {} THEN 0 ELSE CHOOSE i \in bad : \A j \in bad : i <= j

\* CallSimple with MinArgs and MaxArgs excluding their bound, and RangeArgs both
CallSimpleExclusive(v, args) ==
    CASE v.kind = "nil" -> VPanic
      [] v.kind = "NoArgs" ->
            IF Len(args) > 0
            THEN VFail("was expecting to receive no arguemetns received", 0, 0, Len(args), <<>>)
            ELSE VOk
      [] v.kind = "MinArgs" ->
            IF Len(args) <= v.n
            THEN VFail("requires at least arg(s), only received", v.n, 0, Len(args), <<>>)
            ELSE VOk
      [] v.kind = "MaxArgs" ->
            IF Len(args) >= v.n
            THEN VFail("requires at most arg(s), received", v.n, 0, Len(args), <<>>)
            ELSE VOk
      [] v.kind = "ExactArgs" ->
            IF Len(args) # v.n
            THEN VFail("requires exactly arg(s), received", v.n, 0, Len(args), <<>>)
            ELSE VOk
      [] v.kind = "RangeArgs" ->
            IF Len(args) <= v.n \/ Len(args) >= v.m
            THEN VFail("requires between and arg(s), received", v.n, v.m, Len(args), <<>>)
            ELSE VOk
      [] v.kind = "OnlyValidArgs" ->
            LET i == FirstInvalid(v.valid, args)
            IN IF i # 0
               THEN VFail("requires valid arugmenets of, received", 0, 0, 0, args[i])
               ELSE VOk

\* calling one of the closures that are not CombineValidator's
CallSimple(v, args) ==
    CASE v.kind = "nil" -> VPanic
      [] v.kind = "NoArgs" ->
            IF Len(args) > 0
            THEN VFail("was expecting to receive no arguemetns received", 0, 0, Len(args), <<>>)
            ELSE VOk
      [] v.kind = "MinArgs" ->
            IF Len(args) < v.n
            THEN VFail("requires at least arg(s), only received", v.n, 0, Len(args), <<>>)
            ELSE VOk
      [] v.kind = "MaxArgs" ->
            IF Len(args) > v.n
            THEN VFail("requires at most arg(s), received", v.n, 0, Len(args), <<>>)
            ELSE VOk
      [] v.kind = "ExactArgs" ->
            IF Len(args) # v.n
            THEN VFail("requires exactly arg(s), received", v.n, 0, Len(args), <<>>)
            ELSE VOk
      [] v.kind = "RangeArgs" ->
            IF Len(args) < v.n \/ Len(args) > v.m
            THEN VFail("requires between and arg(s), received", v.n, v.m, Len(args), <<>>)
            ELSE VOk
      [] v.kind = "OnlyValidArgs" ->
            LET i == FirstInvalid(v.valid, args)
            IN IF i # 0
               THEN VFail("requires valid arugmenets of, received", 0, 0, 0, args[i])
               ELSE VOk

\* the loop of CombineValidator's closure over validators[i..]
RECURSIVE CombineFrom(_, _, _)

\* the loop going on after a failure and returning the last one
CombineFromLast(validators, i, args) ==
    IF i > Len(validators)
    THEN VOk
    ELSE LET r == CallSimple(validators[i], args)
             rest == CombineFrom(validators, i + 1, args)
         IN IF rest.out # "ok" THEN rest ELSE r

CombineFrom(validators, i, args) ==
    IF i > Len(validators)
    THEN VOk
    ELSE LET r == CallSimple(validators[i], args)
         IN IF r.out = "ok" THEN CombineFrom(validators, i + 1, args) ELSE r

\* the validators that the loop of CombineValidator's closure calls, in order,
\* as their positions in validators[i..]
RECURSIVE CombineCalled(_, _, _)
CombineCalled(validators, i, args) ==
    IF i > Len(validators)
    THEN <<>>
    ELSE <<i>> \o (IF CallSimple(validators[i], args).out = "ok"
                   THEN CombineCalled(validators, i + 1, args)
                   ELSE <<>>)

\* v(args)
CallValidator(v, args) ==
    IF v.kind = "Combine" THEN CombineFrom(v.subs, 1, args) ELSE CallSimple(v, args)

\* Parse, lines 108-109: a nil ArgsValidator is not called
ValidateArgs(v, args) ==
    IF v # NilValidator THEN CallValidator(v, args) ELSE [out |-> "skip", err |-> Nil]

\* the expressions a caller writes to build a validator: a constructor and its
\* arguments (Combine over the expressions in subs)
Expr(kind, n, m, valid) == [kind |-> kind, n |-> n, m |-> m, valid |-> valid, subs |-> <<>>]

AllowedSets == {<<>>, <<Str_x>>, <<Str_x, Str_sub>>}

SimpleExprs ==
    {Expr("NoArgs", 0, 0, <<>>)}
    \cup {Expr(k, n, 0, <<>>) : k \in {"MinArgs", "MaxArgs", "ExactArgs"}, n \in 0..MaxN}
    \cup {Expr("RangeArgs", n, m, <<>>) : n \in 0..MaxN, m \in 0..MaxN}
    \cup {Expr("OnlyValidArgs", 0, 0, valid) : valid \in AllowedSets}

ValidatorExprs ==
    SimpleExprs
    \cup {[Expr("Combine", 0, 0, <<>>) EXCEPT !.subs = subs] :
             subs \in UNION {[1..k -> SimpleExprs] : k \in 1..2}}

\* the value of an expression that is not a CombineValidator call
EvalSimple(e) ==
    CASE e.kind = "NoArgs" -> NoArgs
      [] e.kind = "MinArgs" -> MinArgs(e.n)
      [] e.kind = "MaxArgs" -> MaxArgsV(e.n)
      [] e.kind = "ExactArgs" -> ExactArgs(e.n)
      [] e.kind = "RangeArgs" -> RangeArgs(e.n, e.m)
      [] e.kind = "OnlyValidArgs" -> OnlyValidArgs(e.valid)

\* the value of an expression
Eval(e) ==
    IF e.kind = "Combine"
    THEN CombineValidator([i \in 1..Len(e.subs) |-> EvalSimple(e.subs[i])])
    ELSE EvalSimple(e)

\* ------------------------------------------------------------------ flag.FlagSet

Str_true == <<"t", "r", "u", "e">>
Str_false == <<"f", "a", "l", "s", "e">>
Str_help == <<"h", "e", "l", "p">>

\* a Command whose FlagSet field is nil
NilFlagSet ==
    [set |-> FALSE, errorHandling |-> "", formal |-> {}, value |-> {}, usage |-> 0]

\* flag.NewFlagSet(name, errorHandling): no flag defined, the default usage
NewFlagSet(errorHandling) ==
    [set |-> TRUE, errorHandling |-> errorHandling, formal |-> {}, value |-> {}, usage |-> 0]

\* a FlagSet with flag.ContinueOnError and one Bool flag "b" (default false), as
\* the callers' flag sets are built
UserFlagSet ==
    [set |-> TRUE, errorHandling |-> "ContinueOnError",
     formal |-> {[name |-> <<"b">>, isBool |-> TRUE]},
     value |-> {[name |-> <<"b">>, val |-> Str_false]}, usage |-> 0]

\* Value.Set on the flag called name
SetFlag(fs, name, val) ==
    [fs EXCEPT !.value = {e \in @ : e.name # name} \cup {[name |-> name, val |-> val]}]

\* strconv.ParseBool accepts these spellings
BoolSpellings ==
    {<<"1">>, <<"t">>, <<"T">>, <<"T", "R", "U", "E">>, Str_true, <<"T", "r", "u", "e">>,
     <<"0">>, <<"f">>, <<"F">>, <<"F", "A", "L", "S", "E">>, Str_false, <<"F", "a", "l", "s", "e">>}

\* the outcome of FlagSet.parseOne: seen, the error, the FlagSet and f.args after it
OneResult(seen, err, fs, rest) == [seen |-> seen, err |-> err, fs |-> fs, args |-> rest]

\* FlagSet.failf builds the error (and prints the usage, as every failure does)
Failf(text, s) == NewError([text |-> text, n |-> 0, m |-> 0, got |-> 0, arg |-> s])

\* FlagSet.parseOne on f.args = rest
ParseOne(fs, rest) ==
    IF Len(rest) = 0 THEN OneResult(FALSE, Nil, fs, rest)
    ELSE
    LET s == rest[1] IN
    IF Len(s) < 2 \/ s[1] # "-" THEN OneResult(FALSE, Nil, fs, rest)
    ELSE IF s[2] = "-" /\ Len(s) = 2
    THEN OneResult(FALSE, Nil, fs, Tail(rest))     \* "--" terminates the flags
    ELSE
    LET numMinuses == IF s[2] = "-" THEN 2 ELSE 1
        name0 == Tail2(s, numMinuses + 1)
    IN
    IF Len(name0) = 0 \/ name0[1] = "-" \/ name0[1] = "="
    THEN OneResult(FALSE, Failf("bad flag syntax", s), fs, rest)
    ELSE
    LET rest1 == Tail(rest)
        eq == IF IndexOf(Tail(name0), "=") = 0 THEN 0 ELSE IndexOf(Tail(name0), "=") + 1
        hasValue0 == eq # 0
        value0 == IF hasValue0 THEN Tail2(name0, eq + 1) ELSE <<>>
        name == IF hasValue0 THEN SubSeq(name0, 1, eq - 1) ELSE name0
        known == {f \in fs.formal : f.name = name}
    IN
    IF known = {}
    THEN IF name = Str_help \/ name = <<"h">>
         THEN OneResult(FALSE, ErrHelp, fs, rest1)
         ELSE OneResult(FALSE, Failf("flag provided but not defined", name), fs, rest1)
    ELSE
    LET flag == CHOOSE f \in known : TRUE IN
    IF flag.isBool
    THEN IF hasValue0
         THEN IF value0 \in BoolSpellings
              THEN OneResult(TRUE, Nil,
                             SetFlag(fs, name,
                                 IF value0[1] \in {"1", "t", "T"} THEN Str_true ELSE Str_false),
                             rest1)
              ELSE OneResult(FALSE, Failf("invalid boolean value", value0), fs, rest1)
         ELSE OneResult(TRUE, Nil, SetFlag(fs, name, Str_true), rest1)
    ELSE
    LET hasValue == hasValue0 \/ Len(rest1) > 0
        value == IF hasValue0 THEN value0 ELSE IF Len(rest1) > 0 THEN rest1[1] ELSE <<>>
        rest2 == IF ~hasValue0 /\ Len(rest1) > 0 THEN Tail(rest1) ELSE rest1
    IN
    IF ~hasValue
    THEN OneResult(FALSE, Failf("flag needs an argument", name), fs, rest1)
    ELSE OneResult(TRUE, Nil, SetFlag(fs, name, value), rest2)

\* the outcome of FlagSet.Parse: the FlagSet after it, f.Args(), the error it
\* returned, whether f.Usage was called, and whether it ended the process
\* (os.Exit under flag.ExitOnError) instead of returning
RECURSIVE FlagSetParse(_, _)
FlagSetParse(fs, arguments) ==
    LET r == ParseOne(fs, arguments) IN
    IF r.seen THEN FlagSetParse(r.fs, r.args)
    ELSE IF r.err = Nil
    THEN [fs |-> r.fs, args |-> r.args, err |-> Nil, usage |-> FALSE, exit |-> "no"]
    ELSE IF fs.errorHandling = "ContinueOnError"
    THEN [fs |-> r.fs, args |-> r.args, err |-> r.err, usage |-> TRUE, exit |-> "no"]
    ELSE [fs |-> r.fs, args |-> r.args, err |-> r.err, usage |-> TRUE,
          exit |-> IF r.err = ErrHelp THEN "exit0" ELSE "exit2"]

\* ------------------------------------------------------------------ Command

Nodes == 1..3
Root == 1

Usage_app == <<"a", "p", "p">>
Usage_sub == <<"s", "u", "b", " ", "[", "x", "]">>
Usage_x == <<"x">>
Alias_SUB == <<"S", "U", "B">>

\* the fields of a Command that the caller sets and Parse does not change,
\* except FlagSet, which is the variable flagSet; Exec is whether Exec is set
Profiles ==
    {[FlagSet |-> NilFlagSet, ArgsValidator |-> OnlyValidArgs(<<>>), Exec |-> TRUE],
     [FlagSet |-> UserFlagSet, ArgsValidator |-> ExactArgs(1), Exec |-> TRUE],
     [FlagSet |-> UserFlagSet, ArgsValidator |-> NoArgs, Exec |-> FALSE]}

\* the two trees: app with the children sub and x, and app -> sub -> x
Shapes ==
    {[c \in Nodes |-> IF c = 1 THEN <<2, 3>> ELSE <<>>],
     [c \in Nodes |-> IF c = 1 THEN <<2>> ELSE IF c = 2 THEN <<3>> ELSE <<>>]}

\* every tree has one Command of each profile
Assignments == {p \in [Nodes -> Profiles] : \A a, b \in Nodes : a # b => p[a] # p[b]}

UsageOf == [c \in Nodes |-> IF c = 1 THEN Usage_app ELSE IF c = 2 THEN Usage_sub ELSE Usage_x]
AliasesOf == [c \in Nodes |-> IF c = 1 THEN <<>> ELSE IF c = 2 THEN <<Str_fb>> ELSE <<Alias_SUB>>]

\* what the work functions return
ExecResults ==
    {Nil, ErrHelp, ErrInvalidArguments,
     Wrap(ErrInvalidArguments, NewError([NoMsg EXCEPT !.text = "bad input"])),
     NewError([NoMsg EXCEPT !.text = "invalid arguments"])}

VARIABLES
    cmds,       \* Command: Usage, Aliases, Subcommands, ArgsValidator, Exec
    flagSet,    \* Command.FlagSet
    selected,   \* Command.selected, 0 for nil
    args,       \* Command.args
    last,       \* the last call: its arguments, what it returned, what it did
    calls,      \* the number of Parse and Run executions so far
    exited,     \* "no", or how the process ended inside a call
    vcall       \* the last validator called directly, its arguments and outcome,
                \* and the validators a CombineValidator closure called

vars == <<cmds, flagSet, selected, args, last, calls, exited, vcall>>

\* Command.Name
Name(c) ==
    LET name == cmds[c].Usage
        i == IndexOf(name, " ")
    IN IF i >= 1 THEN SubSeq(name, 1, i - 1) ELSE name

\* selectedBy comparing with == instead of strings.EqualFold
selectedByExact(c, name) ==
    LET aliases == <<Name(c)>> \o cmds[c].Aliases
    IN \E i \in 1..Len(aliases) : name = aliases[i]

\* Command.selectedBy
selectedBy(c, name) ==
    LET aliases == <<Name(c)>> \o cmds[c].Aliases
    IN \E i \in 1..Len(aliases) : EqualFold(name, aliases[i])

\* the loop of Parse over c.Subcommands: the first one selected by name, 0 if none
FirstSelected(c, name) ==
    LET subs == cmds[c].Subcommands
        hits == {i \in 1..Len(subs) : selectedBy(subs[i], name)}
    IN IF hits = {} THEN 0 ELSE subs[CHOOSE i \in hits : \A j \in hits : i <= j]

\* what a call did, in order: "bind" (FlagSet.Parse of cmd on args, returning
\* err), "usage" (the usage of cmd was rendered), "validate" (ArgsValidator of
\* cmd called on args, returning err), "exec" (Exec of cmd called on args,
\* returning err), "parsed" (Parse of cmd found selected set and returned)
Event(ev, cmd, a, err) == [ev |-> ev, cmd |-> cmd, args |-> a, err |-> err]

\* c.FlagSet.Usage(): the closure Parse installed renders its Command
UsageEvent(fs) == Event("usage", fs.usage, <<>>, Nil)

\* Command.Parse works on the running state
\* st = [selected, args, flagSet, log, exit, err]; exit is "no" while the
\* process runs, and err is what the call returns.

\* Parse, lines 76-86: the FlagSet of c, created if nil, with the usage closure of c
PrepareFlagSet(c, st) ==
    [(IF ~st.flagSet[c].set THEN NewFlagSet("ExitOnError") ELSE st.flagSet[c])
        EXCEPT !.usage = c]

\* ParseValidated returning the validator's error as it is
ParseValidatedUnwrapped(c, st, v) ==
    IF v.out = "panic"
    THEN [st EXCEPT !.exit = "panic", !.err = Nil]
    ELSE IF v.out = "skip"
    THEN [st EXCEPT !.err = Nil]
    ELSE IF v.out = "fail"
    THEN [st EXCEPT !.log = @ \o <<Event("validate", c, st.args[c], v.err),
                                   UsageEvent(st.flagSet[c])>>,
                    !.err = v.err]
    ELSE [st EXCEPT !.log = @ \o <<Event("validate", c, st.args[c], Nil)>>,
                    !.err = Nil]

\* Parse, lines 104-115, v being what c.ArgsValidator(c.args) did
ParseValidated(c, st, v) ==
    IF v.out = "panic"
    THEN [st EXCEPT !.exit = "panic", !.err = Nil]
    ELSE IF v.out = "skip"
    THEN [st EXCEPT !.err = Nil]
    ELSE IF v.out = "fail"
    THEN [st EXCEPT !.log = @ \o <<Event("validate", c, st.args[c], v.err),
                                   UsageEvent(st.flagSet[c])>>,
                    !.err = Wrap(ErrInvalidArguments, v.err)]
    ELSE [st EXCEPT !.log = @ \o <<Event("validate", c, st.args[c], Nil)>>,
                    !.err = Nil]

\* ParseTerminal calling the validator before it looks at Exec
ParseTerminalValidateFirst(c, st) ==
    IF ValidateArgs(cmds[c].ArgsValidator, st.args[c]).out = "fail" \/ cmds[c].Exec
    THEN ParseValidated(c, [st EXCEPT !.selected[c] = c],
                        ValidateArgs(cmds[c].ArgsValidator, st.args[c]))
    ELSE [st EXCEPT !.selected[c] = c, !.err = NoExecError(c)]

\* Parse, lines 102-115: c is the terminal Command
ParseTerminal(c, st) ==
    IF ~cmds[c].Exec
    THEN [st EXCEPT !.selected[c] = c, !.err = NoExecError(c)]
    ELSE ParseValidated(c, [st EXCEPT !.selected[c] = c],
                        ValidateArgs(cmds[c].ArgsValidator, st.args[c]))

\* Parse, lines 93-100: the Subcommand that c.args[0] selects, 0 if none
SelectSub(c, rest) ==
    IF Len(rest) > 0 THEN FirstSelected(c, rest[1]) ELSE 0

RECURSIVE ParseCmd(_, _, _)

\* ParseSelected handing c.args whole to the Subcommand
ParseSelectedWhole(c, st, cmd) ==
    IF cmd # 0
    THEN ParseCmd(cmd, st.args[c], [st EXCEPT !.selected[c] = cmd])
    ELSE ParseTerminal(c, st)

\* ParseSelected running the validator of c before it descends
ParseSelectedValidating(c, st, cmd) ==
    IF cmd # 0 /\ ValidateArgs(cmds[c].ArgsValidator, st.args[c]).out # "fail"
    THEN ParseCmd(cmd, Tail(st.args[c]), [st EXCEPT !.selected[c] = cmd])
    ELSE IF cmd # 0
    THEN ParseValidated(c, [st EXCEPT !.selected[c] = cmd],
                        ValidateArgs(cmds[c].ArgsValidator, st.args[c]))
    ELSE ParseTerminal(c, st)

\* Parse, lines 92-102, cmd being the Subcommand selected (0 if none)
ParseSelected(c, st, cmd) ==
    IF cmd # 0
    THEN ParseCmd(cmd, Tail(st.args[c]), [st EXCEPT !.selected[c] = cmd])
    ELSE ParseTerminal(c, st)

\* ParseBound wrapping the error of FlagSet.Parse as it wraps the validator's
ParseBoundWrapped(c, argv, st, b) ==
    IF b.exit # "no" THEN [st EXCEPT !.flagSet[c] = b.fs, !.exit = b.exit, !.err = b.err]
    ELSE IF b.err # Nil
    THEN [st EXCEPT !.flagSet[c] = b.fs, !.err = Wrap(ErrInvalidArguments, b.err)]
    ELSE ParseSelected(c, [st EXCEPT !.flagSet[c] = b.fs, !.args[c] = b.args],
                       SelectSub(c, b.args))

\* Parse, lines 88-92, b being what c.FlagSet.Parse(args) did
ParseBound(c, argv, st, b) ==
    IF b.exit # "no" THEN [st EXCEPT !.flagSet[c] = b.fs, !.exit = b.exit, !.err = b.err]
    ELSE IF b.err # Nil THEN [st EXCEPT !.flagSet[c] = b.fs, !.err = b.err]
    ELSE ParseSelected(c, [st EXCEPT !.flagSet[c] = b.fs, !.args[c] = b.args],
                       SelectSub(c, b.args))

\* the log of FlagSet.Parse: the usage it rendered, then its result
BindLog(c, argv, st, b) ==
    [st EXCEPT !.log = @ \o (IF b.usage THEN <<UsageEvent(b.fs)>> ELSE <<>>)
                         \o <<Event("bind", c, argv, b.err)>>]

\* Parse, from line 76, fs being c.FlagSet as line 86 leaves it
ParseWith(c, argv, st, fs) ==
    ParseBound(c, argv, BindLog(c, argv, st, FlagSetParse(fs, argv)), FlagSetParse(fs, argv))

\* Parse without its first three lines: it parses whatever c.selected is
ParseCmdAgain(c, argv, st) ==
    ParseWith(c, argv, st, PrepareFlagSet(c, st))

\* Command.Parse
ParseCmd(c, argv, st) ==
    IF st.selected[c] # 0
    THEN [st EXCEPT !.err = Nil, !.log = @ \o <<Event("parsed", c, argv, Nil)>>]
    ELSE ParseWith(c, argv, st, PrepareFlagSet(c, st))

RECURSIVE RunCmd(_, _, _)

\* Run calling the Exec of c whenever c has one, whatever c.selected is
RunCmdAnyExec(c, ret, st) ==
    IF st.selected[c] = 0 THEN [st EXCEPT !.err = ErrUnparsed]
    ELSE IF cmds[c].Exec
    THEN [st EXCEPT !.log = @ \o <<Event("exec", c, st.args[c], ret)>>
                              \o (IF ErrorsIs(ret, ErrHelp) \/ ErrorsIs(ret, ErrInvalidArguments)
                                  THEN <<UsageEvent(st.flagSet[c])>> ELSE <<>>),
                    !.err = ret]
    ELSE IF st.selected[c] = c THEN [st EXCEPT !.err = NoExecError(c)]
    ELSE RunCmd(st.selected[c], ret, st)

\* Run without its first check: an unparsed Command is run as a terminal one
RunCmdUnchecked(c, ret, st) ==
    IF st.selected[c] \in {0, c} /\ ~cmds[c].Exec THEN [st EXCEPT !.err = NoExecError(c)]
    ELSE IF st.selected[c] \in {0, c} /\ cmds[c].Exec
    THEN [st EXCEPT !.log = @ \o <<Event("exec", c, st.args[c], ret)>>
                              \o (IF ErrorsIs(ret, ErrHelp) \/ ErrorsIs(ret, ErrInvalidArguments)
                                  THEN <<UsageEvent(st.flagSet[c])>> ELSE <<>>),
                    !.err = ret]
    ELSE RunCmd(st.selected[c], ret, st)

\* Run comparing the error of Exec with == instead of errors.Is
RunCmdCompareEq(c, ret, st) ==
    IF st.selected[c] = 0 THEN [st EXCEPT !.err = ErrUnparsed]
    ELSE IF st.selected[c] = c /\ ~cmds[c].Exec THEN [st EXCEPT !.err = NoExecError(c)]
    ELSE IF st.selected[c] = c /\ cmds[c].Exec
    THEN [st EXCEPT !.log = @ \o <<Event("exec", c, st.args[c], ret)>>
                              \o (IF ret = ErrHelp \/ ret = ErrInvalidArguments
                                  THEN <<UsageEvent(st.flagSet[c])>> ELSE <<>>),
                    !.err = ret]
    ELSE RunCmd(st.selected[c], ret, st)

\* Command.Run, where the Exec that is called returns ret
RunCmd(c, ret, st) ==
    IF st.selected[c] = 0 THEN [st EXCEPT !.err = ErrUnparsed]
    ELSE IF st.selected[c] = c /\ ~cmds[c].Exec THEN [st EXCEPT !.err = NoExecError(c)]
    ELSE IF st.selected[c] = c /\ cmds[c].Exec
    THEN [st EXCEPT !.log = @ \o <<Event("exec", c, st.args[c], ret)>>
                              \o (IF ErrorsIs(ret, ErrHelp) \/ ErrorsIs(ret, ErrInvalidArguments)
                                  THEN <<UsageEvent(st.flagSet[c])>> ELSE <<>>),
                    !.err = ret]
    ELSE RunCmd(st.selected[c], ret, st)

\* the state a call starts from
Now == [selected |-> selected, args |-> args, flagSet |-> flagSet,
        log |-> <<>>, exit |-> "no", err |-> Nil]

\* ParseAndRun going on to Run whatever Parse returned
ParseAndRunCmdAlways(c, argv, ret) ==
    LET p == ParseCmd(c, argv, Now)
    IN IF p.exit # "no" THEN p ELSE RunCmd(c, ret, p)

\* Command.ParseAndRun
ParseAndRunCmd(c, argv, ret) ==
    LET p == ParseCmd(c, argv, Now)
    IN IF p.exit # "no" \/ p.err # Nil THEN p ELSE RunCmd(c, ret, p)

\* perr is what the Parse inside the call returned (nil when there is none)
NoCall == [op |-> "none", cmd |-> 0, argv |-> <<>>, perr |-> Nil, err |-> Nil, log |-> <<>>]
NoVCall == [how |-> "none", expr |-> Expr("none", 0, 0, <<>>), args |-> <<>>,
            out |-> "none", err |-> Nil, called |-> <<>>]

\* a call ended in state r
Ended(op, c, argv, r, perr, n) ==
    /\ selected' = r.selected
    /\ args' = r.args
    /\ flagSet' = r.flagSet
    /\ exited' = r.exit
    /\ last' = [op |-> op, cmd |-> c, argv |-> argv, perr |-> perr, err |-> r.err,
                log |-> r.log]
    /\ calls' = calls + n
    /\ UNCHANGED <<cmds, vcall>>

\* a tree as its caller built it, before any call
Built(shape, prof) ==
    /\ cmds = [c \in Nodes |->
                  [Usage |-> UsageOf[c], Aliases |-> AliasesOf[c],
                   Subcommands |-> shape[c],
                   ArgsValidator |-> prof[c].ArgsValidator, Exec |-> prof[c].Exec]]
    /\ flagSet = [c \in Nodes |-> prof[c].FlagSet]
    /\ selected = [c \in Nodes |-> 0]
    /\ args = [c \in Nodes |-> <<>>]
    /\ last = NoCall
    /\ calls = 0
    /\ exited = "no"
    /\ vcall = NoVCall

Init == \E shape \in Shapes : \E prof \in Assignments : Built(shape, prof)

\* the process runs and n more executions of Parse and Run fit in the bound
CanCall(n) == exited = "no" /\ calls + n <= MaxCalls

\* c.Parse(argv)
Parse(c, argv) ==
    Ended("Parse", c, argv, ParseCmd(c, argv, Now), ParseCmd(c, argv, Now).err, 1)

\* c.Run(ctx), the Exec it reaches returning ret
Run(c, ret) == Ended("Run", c, <<>>, RunCmd(c, ret, Now), Nil, 1)

\* c.ParseAndRun(ctx, argv), the Exec it reaches returning ret
ParseAndRun(c, argv, ret) ==
    Ended("ParseAndRun", c, argv, ParseAndRunCmd(c, argv, ret),
          ParseCmd(c, argv, Now).err, 2)

CallParse == CanCall(1) /\ \E c \in Nodes : \E argv \in ArgVectors : Parse(c, argv)

CallRun == CanCall(1) /\ \E c \in Nodes : \E ret \in ExecResults : Run(c, ret)

CallParseAndRun ==
    CanCall(2) /\ \E c \in Nodes : \E argv \in ArgVectors : \E ret \in ExecResults :
                     ParseAndRun(c, argv, ret)

Next == CallParse \/ CallRun \/ CallParseAndRun

Spec == Init /\ [][Next]_vars

\* ------------------------------------------------------------------ validators alone

\* A validator is a pure function: each behaviour builds one and calls it once.

\* v(args) by a caller of the package, v being the value of expr
Called(how, expr, a, r) ==
    /\ vcall' = [how |-> how, expr |-> expr, args |-> a, out |-> r.out, err |-> r.err,
                 called |-> IF expr.kind = "Combine"
                            THEN CombineCalled(Eval(expr).subs, 1, a)
                            ELSE <<>>]
    /\ exited' = IF r.out = "panic" THEN "panic" ELSE "no"
    /\ UNCHANGED <<cmds, flagSet, selected, args, last, calls>>

CallDirect ==
    /\ vcall.how = "none"
    /\ \E expr \in ValidatorExprs : \E a \in ArgVectors :
          Called("call", expr, a, CallValidator(Eval(expr), a))

\* the value of expr as the ArgsValidator of a Command, as Parse uses it
CallAsParse ==
    /\ vcall.how = "none"
    /\ \E expr \in ValidatorExprs : \E a \in ArgVectors :
          Called("parse", expr, a, ValidateArgs(Eval(expr), a))

InitArgs ==
    Built(CHOOSE shape \in Shapes : Len(shape[1]) = 2,
          CHOOSE prof \in Assignments : prof[1].Exec /\ prof[2].Exec /\ prof[1].FlagSet.set)

NextArgs == CallDirect \/ CallAsParse

SpecArgs == InitArgs /\ [][NextArgs]_vars

\* ------------------------------------------------------------------ properties

\* the events of one kind in a log, in order
Only(log, ev) == SelectSeq(log, LAMBDA e : e.ev = ev)

\* the call bound the flags of c: c.FlagSet.Parse returned nil inside it
BoundIn(l, c) == \E i \in 1..Len(l.log) : l.log[i].ev = "bind" /\ l.log[i].cmd = c /\ l.log[i].err = Nil

\* the call made c terminal: it bound the flags of c and set c.selected to c
TerminalIn(l, c) == exited = "no" /\ BoundIn(l, c) /\ selected[c] = c

\* the Command at the end of the selected references from c
RECURSIVE LeafOf(_)
LeafOf(c) == IF selected[c] = 0 \/ selected[c] = c THEN c ELSE LeafOf(selected[c])

\* the Parse of the call resolved its whole path itself and returned nil
ResolvedIn(l) ==
    /\ l.op \in {"Parse", "ParseAndRun"}
    /\ l.perr = Nil
    /\ Only(l.log, "parsed") = <<>>

\* the canonical names the trees are built with, and the folded spelling of a string
CanonicalName == [c \in Nodes |-> IF c = 1 THEN Usage_app ELSE IF c = 2 THEN Str_sub ELSE Str_x]
Folded(s) == [i \in 1..Len(s) |-> FoldChar(s[i])]

\* token names child c: it is its canonical name or an alias, whatever the case
Names(token, c) ==
    \/ Folded(token) = Folded(CanonicalName[c])
    \/ \E i \in 1..Len(cmds[c].Aliases) : Folded(token) = Folded(cmds[c].Aliases[i])

\* C1: after a Parse from the root that resolved the tree and returned nil, Run
\* on the root calls exactly one Exec, the terminal Command's, with the
\* terminal Command's args (what its own FlagSet.Parse left); no other Exec is
\* called. Both for Parse followed by Run and for ParseAndRun.
C1_RunCallsTerminalExecOnly ==
    [][/\ (/\ last.op = "Parse" /\ last.cmd = Root /\ ResolvedIn(last)
           /\ last'.op = "Run" /\ last'.cmd = Root)
          => /\ Only(last'.log, "exec") = <<Event("exec", LeafOf(Root), args[LeafOf(Root)], last'.err)>>
             /\ \E i \in 1..Len(last.log) :
                   last.log[i] = Event("bind", LeafOf(Root), last.log[i].args, Nil)
       /\ (last'.op = "ParseAndRun" /\ last'.cmd = Root /\ ResolvedIn(last'))
          => \E i \in 1..Len(last'.log) :
                /\ last'.log[i].ev = "bind" /\ last'.log[i].err = Nil
                /\ selected'[last'.log[i].cmd] = last'.log[i].cmd
                /\ Only(last'.log, "exec") =
                      <<Event("exec", last'.log[i].cmd, args'[last'.log[i].cmd], last'.err)>>
      ]_vars

\* C1 witness: ParseAndRun on a root that has an Exec, with ["sub", "x"]: only
\* the Exec of sub was called, with ["x"]
C1_Witness ==
    /\ last.op = "ParseAndRun" /\ last.cmd = Root /\ last.argv = <<Str_sub, Str_x>>
    /\ cmds[Root].Exec
    /\ selected[Root] = 2 /\ selected[2] = 2
    /\ Only(last.log, "exec") = <<Event("exec", 2, <<Str_x>>, Nil)>>

\* argv is flags of c, then "--", then at position k + 1 a token naming a child of c
FlagsDashDashChild(c, argv, k) ==
    /\ k + 1 <= Len(argv)
    /\ argv[k] = Str_dd
    /\ \A i \in 1..(k - 1) : argv[i] = Str_b
    /\ \E j \in 1..Len(cmds[c].Subcommands) : Names(argv[k + 1], cmds[c].Subcommands[j])

\* C2: when the arguments of a Command are its flags, then "--", then a token
\* naming one of its children, Parse makes the Command itself terminal, the
\* token being the first of its args; the child is not selected.
C2_DashDashKeepsChildNameAsArg ==
    \A k \in 1..MaxArgs :
       (/\ last.op \in {"Parse", "ParseAndRun"}
        /\ exited = "no"
        /\ last.log # <<>> /\ last.log[1] = Event("bind", last.cmd, last.argv, Nil)
        /\ FlagsDashDashChild(last.cmd, last.argv, k))
       => /\ selected[last.cmd] = last.cmd
          /\ args[last.cmd] # <<>> /\ args[last.cmd][1] = last.argv[k + 1]

\* C3: Run on a Command whose selected is unset returns ErrUnparsed, calls no
\* Exec and renders no usage.
C3_RunUnparsed ==
    (last.op = "Run" /\ selected[last.cmd] = 0)
    => last.err = ErrUnparsed /\ last.log = <<>>

\* C3 witness: Run on a Command that has an Exec and was never parsed, after a
\* Parse elsewhere in the tree
C3_Witness ==
    /\ last.op = "Run" /\ selected[last.cmd] = 0 /\ cmds[last.cmd].Exec
    /\ calls = 2 /\ \E c \in Nodes : selected[c] # 0
    /\ last.err = ErrUnparsed

\* C4: a Parse that makes a Command without Exec terminal returns the
\* NoExecError of that Command; no validator was called, no usage rendered.
C4_TerminalWithoutExec ==
    \A c \in Nodes :
       (last.op \in {"Parse", "ParseAndRun"} /\ TerminalIn(last, c) /\ ~cmds[c].Exec)
       => /\ last.err = NoExecError(c)
          /\ Only(last.log, "validate") = <<>>
          /\ Only(last.log, "usage") = <<>>
          /\ Only(last.log, "exec") = <<>>

\* C4 witness: a child without Exec whose NoArgs would reject its args ["x"]
C4_Witness ==
    /\ last.op = "Parse" /\ last.cmd = Root /\ selected[Root] = 2
    /\ TerminalIn(last, 2) /\ ~cmds[2].Exec
    /\ cmds[2].ArgsValidator = NoArgs /\ args[2] = <<Str_x>>
    /\ last.err = NoExecError(2)

\* the validator of c is set and rejects the args of c
Rejects(c) ==
    /\ cmds[c].ArgsValidator # NilValidator
    /\ CallValidator(cmds[c].ArgsValidator, args[c]).out = "fail"

\* C5: when the validator of the Command a Parse made terminal rejects its
\* args, the call returns an error that is ErrInvalidArguments (errors.Is) and
\* carries the validator's message, the usage of that Command is rendered (and
\* no other), and no Exec is called.
C5_InvalidArguments ==
    \A c \in Nodes :
       (last.op \in {"Parse", "ParseAndRun"} /\ TerminalIn(last, c) /\ cmds[c].Exec /\ Rejects(c))
       => /\ \E i \in 1..Len(last.err.chain) : last.err.chain[i] = "ErrInvalidArguments"
          /\ last.err # ErrInvalidArguments
          /\ last.err.detail = CallValidator(cmds[c].ArgsValidator, args[c]).err.detail
          /\ last.err.detail.text # ""
          /\ Only(last.log, "usage") = <<Event("usage", c, <<>>, Nil)>>
          /\ Only(last.log, "exec") = <<>>

\* C5 witness: a root with ExactArgs(1) and no arguments, under ParseAndRun
C5_Witness ==
    /\ last.op = "ParseAndRun" /\ last.cmd = Root /\ last.argv = <<>>
    /\ cmds[Root].ArgsValidator = ExactArgs(1) /\ cmds[Root].Exec
    /\ TerminalIn(last, Root)
    /\ last.err.chain = <<"wrapError", "ErrInvalidArguments">>
    /\ Only(last.log, "usage") = <<Event("usage", Root, <<>>, Nil)>>

\* C6: when FlagSet.Parse of some Command returns flag.ErrHelp inside Parse or
\* ParseAndRun, the call returns exactly flag.ErrHelp, the usage of that Command
\* is rendered and no other, no validator and no Exec is called. (Under
\* flag.ExitOnError FlagSet.Parse ends the process instead; the rest holds.)
C6_HelpRequested ==
    \A i \in 1..Len(last.log) :
       (last.op \in {"Parse", "ParseAndRun"}
        /\ last.log[i].ev = "bind" /\ last.log[i].err = ErrHelp)
       => /\ exited = "no" => last.err = ErrHelp
          /\ Only(last.log, "usage") = <<Event("usage", last.log[i].cmd, <<>>, Nil)>>
          /\ Only(last.log, "validate") = <<>>
          /\ Only(last.log, "exec") = <<>>

\* C6 witness: ["sub", "-h"] from the root: help is requested at sub, returned
\* to the caller of ParseAndRun
C6_Witness ==
    /\ last.op = "ParseAndRun" /\ last.cmd = Root /\ last.argv = <<Str_sub, Str_h>>
    /\ selected[Root] = 2 /\ exited = "no"
    /\ last.err = ErrHelp
    /\ Only(last.log, "usage") = <<Event("usage", 2, <<>>, Nil)>>

\* err is flag.ErrHelp or ErrInvalidArguments, itself or wrapped
AsksForUsage(err) ==
    \E i \in 1..Len(err.chain) : err.chain[i] \in {"flag.ErrHelp", "ErrInvalidArguments"}

\* C7: Run returns what the Exec it called returned, unchanged, and renders the
\* usage of the terminal Command iff that error is flag.ErrHelp or
\* ErrInvalidArguments by identity or wrapping; otherwise it renders nothing.
C7_RunPropagatesExecError ==
    \A i \in 1..Len(last.log) :
       (last.op \in {"Run", "ParseAndRun"} /\ last.log[i].ev = "exec")
       => /\ last.err = last.log[i].err
          /\ selected[last.log[i].cmd] = last.log[i].cmd
          /\ SubSeq(last.log, i + 1, Len(last.log)) =
                IF AsksForUsage(last.log[i].err)
                THEN <<Event("usage", last.log[i].cmd, <<>>, Nil)>>
                ELSE <<>>

\* C7 witness: an Exec returned an error that wraps ErrInvalidArguments; Run
\* returned it and rendered the usage of that Command
C7_Witness ==
    /\ last.op = "Run" /\ last.cmd = Root /\ selected[Root] = 2
    /\ last.err.chain = <<"wrapError", "ErrInvalidArguments">>
    /\ last.log = <<Event("exec", 2, args[2], last.err), Event("usage", 2, <<>>, Nil)>>

\* C7 witness of the other side: an error whose text is "invalid arguments"
\* but that is not ErrInvalidArguments renders nothing
C7_WitnessOther ==
    /\ last.op = "Run" /\ last.err.text = "invalid arguments"
    /\ last.err.chain = <<"errorString">>
    /\ Len(last.log) = 1 /\ last.log[1].ev = "exec"

\* the first child of c, in the order of Subcommands, that token names; 0 if none
FirstNamed(c, token) ==
    LET subs == cmds[c].Subcommands
        named == {j \in 1..Len(subs) : Names(token, subs[j])}
    IN IF named = {} THEN 0 ELSE subs[CHOOSE j \in named : \A k \in named : j <= k]

\* C8: Parse selects a child iff the first positional token is, whatever the
\* case, the child's canonical name or one of its aliases; of several such
\* children the first in the order of Subcommands is selected.
C8_Selection ==
    \A c \in Nodes :
       (last.op \in {"Parse", "ParseAndRun"} /\ exited = "no" /\ BoundIn(last, c))
       => selected[c] =
             IF args[c] # <<>> /\ FirstNamed(c, args[c][1]) # 0
             THEN FirstNamed(c, args[c][1])
             ELSE c

\* C8 witness: "FB" selects sub by its alias "fb"
C8_Witness ==
    /\ last.op = "Parse" /\ last.cmd = Root /\ last.argv = <<Str_FB>>
    /\ selected[Root] = 2 /\ Names(Str_FB, 2) /\ ~Names(Str_FB, 3)

\* C8 witness: "sub" names both children of the root (the second by its alias
\* "SUB"); the first is selected
C8_WitnessFirst ==
    /\ last.op = "Parse" /\ last.cmd = Root /\ last.argv = <<Str_sub>>
    /\ cmds[Root].Subcommands = <<2, 3>>
    /\ Names(Str_sub, 2) /\ Names(Str_sub, 3)
    /\ selected[Root] = 2 /\ selected[3] = 0

\* some element of a is not in valid
SomeAbsent(valid, a) == \E i \in 1..Len(a) : \A j \in 1..Len(valid) : valid[j] # a[i]

C9_WitnessReject ==
    /\ vcall.expr = Expr("OnlyValidArgs", 0, 0, <<Str_x>>)
    /\ vcall.args = <<Str_x, Str_sub>> /\ vcall.out = "fail"
    /\ vcall.err.detail.arg = Str_sub

\* C10: calling a validator built with the constructors of the package,
\* OnlyValidArgs of an empty set and CombineValidator over them included,
\* returns nil or an error; it never panics.
C10_ValidatorsNeverPanic == vcall.out # "panic"

\* what the validator written as e does when called alone on a
Alone(e, a) == CallSimple(EvalSimple(e), a)

\* the positions of the validators of a CombineValidator call that do not
\* return nil on a
Failing(subs, a) == {i \in 1..Len(subs) : Alone(subs[i], a).out # "ok"}

\* C11: the closure of CombineValidator(v1, ..., vn) calls the validators in
\* the order given, each on the list it was given, up to and including the
\* first that does not succeed, whose failure is what it returns; the later
\* ones are not called. It returns nil iff every validator does.
C11_CombineFirstFailure ==
    (vcall.expr.kind = "Combine")
    => LET subs == vcall.expr.subs
           bad == Failing(subs, vcall.args)
       IN IF bad = {}
          THEN /\ vcall.out = "ok" /\ vcall.err = Nil
               /\ vcall.called = [i \in 1..Len(subs) |-> i]
          ELSE LET f == CHOOSE i \in bad : \A j \in bad : i <= j
               IN /\ vcall.out = Alone(subs[f], vcall.args).out
                  /\ vcall.err = Alone(subs[f], vcall.args).err
                  /\ vcall.out # "ok"
                  /\ vcall.called = [i \in 1..f |-> i]

\* C11 witness: both validators reject the list, with different messages; the
\* first one's is returned and the second is not called
C11_Witness ==
    /\ vcall.how = "call"
    /\ vcall.expr.kind = "Combine" /\ Len(vcall.expr.subs) = 2
    /\ Failing(vcall.expr.subs, vcall.args) = {1, 2}
    /\ Alone(vcall.expr.subs[1], vcall.args).err # Alone(vcall.expr.subs[2], vcall.args).err
    /\ vcall.out = "fail" /\ vcall.err = Alone(vcall.expr.subs[1], vcall.args).err
    /\ vcall.called = <<1>>

\* C11 witness: the first validator accepts and the second rejects
C11_WitnessSecond ==
    /\ vcall.expr.kind = "Combine"
    /\ Failing(vcall.expr.subs, vcall.args) = {2}
    /\ vcall.out = "fail" /\ vcall.called = <<1, 2>>

\* C13: the count validators accept a list iff its length is within their
\* bounds, the bounds included: ExactArgs(n) iff it equals n, MinArgs(n) iff
\* it is at least n, MaxArgs(n) iff it is at most n, RangeArgs(min, max) iff it
\* is at least min and at most max, NoArgs iff the list is empty.
C13_CountValidators ==
    LET e == vcall.expr
        count == Len(vcall.args)
        accepts == vcall.out = "ok"
    IN /\ e.kind \in {"NoArgs", "MinArgs", "MaxArgs", "ExactArgs", "RangeArgs"}
          => vcall.out \in {"ok", "fail"}
       /\ e.kind = "ExactArgs" => (accepts <=> count = e.n)
       /\ e.kind = "MinArgs" => (accepts <=> count >= e.n)
       /\ e.kind = "MaxArgs" => (accepts <=> count <= e.n)
       /\ e.kind = "RangeArgs" => (accepts <=> (e.n <= count /\ count <= e.m))
       /\ e.kind = "NoArgs" => (accepts <=> count = 0)

\* C13 witness: a list whose length is the bound itself is accepted by MinArgs
C13_Witness ==
    /\ vcall.expr = Expr("MinArgs", MaxN, 0, <<>>)
    /\ Len(vcall.args) = MaxN /\ vcall.out = "ok"

\* C13 witness: RangeArgs at its upper bound accepts, and rejects one below min
C13_WitnessRange ==
    /\ vcall.expr.kind = "RangeArgs" /\ vcall.expr.n = 1 /\ vcall.expr.m = 2
    /\ Len(vcall.args) = 0 /\ vcall.out = "fail"

\* what a call leaves behind, of the running state st
Outcome(st) == <<st.selected, st.args, st.flagSet, st.exit, st.err>>

\* C12: ParseAndRun(ctx, args) on a Command does what Parse(args) followed by
\* Run(ctx) on it does: when Parse returns an error (or ends the process) the
\* call ends as Parse ended, returning its error, and no Exec is called;
\* otherwise it ends as Run ends from the state Parse left, returning what Run
\* returns. It changes and renders nothing besides.
C12_ParseAndRunIsParseThenRun ==
    [][last'.op = "ParseAndRun"
       => LET p == ParseCmd(last'.cmd, last'.argv, Now)
          IN /\ last'.perr = p.err
             /\ IF p.exit # "no" \/ p.err # Nil
                THEN /\ <<selected', args', flagSet', exited', last'.err>> = Outcome(p)
                     /\ last'.log = p.log
                     /\ Only(last'.log, "exec") = <<>>
                ELSE \E ret \in ExecResults :
                        /\ <<selected', args', flagSet', exited', last'.err>>
                              = Outcome(RunCmd(last'.cmd, ret, p))
                        /\ last'.log = RunCmd(last'.cmd, ret, p).log
      ]_vars

\* C12 witness: Parse succeeded and the Exec it reached returned an error that
\* wraps ErrInvalidArguments, which ParseAndRun returned
C12_Witness ==
    /\ last.op = "ParseAndRun" /\ last.cmd = Root /\ last.perr = Nil
    /\ last.err.chain = <<"wrapError", "ErrInvalidArguments">>
    /\ Len(Only(last.log, "exec")) = 1
    /\ Len(Only(last.log, "bind")) = 2

\* C12 witness: Parse failed at a child without Exec; nothing was run
C12_WitnessShort ==
    /\ last.op = "ParseAndRun" /\ last.cmd = Root /\ selected[Root] = 2
    /\ last.perr = NoExecError(2) /\ last.err = NoExecError(2)
    /\ Only(last.log, "exec") = <<>>

\* C14: Run on a Command with no successful Parse before it - none at all, or
\* only one that returned an error - returns ErrUnparsed and calls no Exec.
C14_RunWithoutSuccessfulParse ==
    [][(/\ last'.op = "Run"
        /\ \/ calls = 0
           \/ calls = 1 /\ last.op = "Parse" /\ last.cmd = last'.cmd /\ last.err # Nil)
       => /\ last'.err = ErrUnparsed
          /\ Only(last'.log, "exec") = <<>>
      ]_vars

\* C15: a selected that is set is never assigned again, by any call; Parse on
\* a Command whose selected is set returns nil at once and leaves every
\* selected, every args and every flag value as they were.
C15_ParseSingleShot ==
    [][/\ \A c \in Nodes : selected[c] # 0 => selected'[c] = selected[c]
       /\ (last'.op \in {"Parse", "ParseAndRun"} /\ selected[last'.cmd] # 0)
          => /\ last'.perr = Nil
             /\ selected' = selected /\ args' = args /\ flagSet' = flagSet
             /\ exited' = "no"
             /\ Only(last'.log, "bind") = <<>>
             /\ Only(last'.log, "validate") = <<>>
             /\ last'.log # <<>> /\ last'.log[1] = Event("parsed", last'.cmd, last'.argv, Nil)
             /\ last'.op = "Parse" => last'.err = Nil /\ Len(last'.log) = 1
      ]_vars

\* C15 witness: a second Parse on the root, with arguments that ask for help,
\* found selected set and did nothing
C15_Witness ==
    /\ calls = 2 /\ last.op = "Parse" /\ last.cmd = Root /\ last.argv = <<Str_h>>
    /\ selected[Root] # 0
    /\ last.err = Nil
    /\ last.log = <<Event("parsed", Root, <<Str_h>>, Nil)>>

\* the Commands reached from c by following selected
RECURSIVE PathNodes(_)
PathNodes(c) ==
    {c} \cup (IF selected[c] = 0 \/ selected[c] = c THEN {} ELSE PathNodes(selected[c]))

\* d is one of the Subcommands of c
ChildOf(d, c) == \E j \in 1..Len(cmds[c].Subcommands) : cmds[c].Subcommands[j] = d

\* C16: when a Parse on the root returns nil, the selected references from the
\* root form one path root -> ... -> leaf: each Command on it but the leaf
\* selects one of its Subcommands, the leaf selects itself, and every Command
\* off the path has selected unset.
C16_SelectedPath ==
    (last.op \in {"Parse", "ParseAndRun"} /\ last.cmd = Root /\ last.perr = Nil /\ exited = "no")
    => /\ selected[LeafOf(Root)] = LeafOf(Root)
       /\ \A c \in PathNodes(Root) \ {LeafOf(Root)} : ChildOf(selected[c], c)
       /\ \A c \in Nodes \ PathNodes(Root) : selected[c] = 0

\* the validator of cmd, when one is set, accepts a
Accepts(cmd, a) ==
    cmds[cmd].ArgsValidator # NilValidator
    => CallValidator(cmds[cmd].ArgsValidator, a).out = "ok"

\* C19: whatever the calls made on a tree, an Exec is only called with a list
\* that the ArgsValidator of its Command, when set, accepts.
C19_ExecOnlyWithAcceptedArgs ==
    \A i \in 1..Len(last.log) :
       last.log[i].ev = "exec" => Accepts(last.log[i].cmd, last.log[i].args)

\* the usage event at position k of the events I of an invocation was caused at
\* its own Command: by the FlagSet.Parse that follows it (which renders before
\* it returns its error), by the validator call before it, or by the Exec call
\* before it returning flag.ErrHelp or ErrInvalidArguments
UsageCaused(I, k) ==
    \/ /\ k < Len(I)
       /\ I[k + 1].ev = "bind" /\ I[k + 1].cmd = I[k].cmd /\ I[k + 1].err # Nil
    \/ /\ k > 1
       /\ I[k - 1].ev = "validate" /\ I[k - 1].cmd = I[k].cmd /\ I[k - 1].err # Nil
    \/ /\ k > 1
       /\ I[k - 1].ev = "exec" /\ I[k - 1].cmd = I[k].cmd /\ AsksForUsage(I[k - 1].err)

\* usage is rendered at most once in I, and only where it was caused
RendersOnce(I) ==
    /\ Len(Only(I, "usage")) <= 1
    /\ \A k \in 1..Len(I) : I[k].ev = "usage" => UsageCaused(I, k)

\* C17: in one invocation from the root - one ParseAndRun, or one Parse followed
\* by one Run - usage is rendered at most once, and only at the Command whose
\* flag binding failed asking for help (or with a flag error, which FlagSet
\* renders the same way), whose validator rejected its args, or whose Exec
\* returned flag.ErrHelp or ErrInvalidArguments, never at an ancestor; Run on a
\* Command that selected a child returns what the child's Run returns and
\* renders nothing of its own.
C17_UsageRenderedOnce ==
    [][/\ (calls = 0 /\ last'.op = "ParseAndRun" /\ last'.cmd = Root)
          => RendersOnce(last'.log)
       /\ (/\ calls = 1 /\ last.op = "Parse" /\ last.cmd = Root
           /\ last'.op = "Run" /\ last'.cmd = Root)
          => RendersOnce(last.log \o last'.log)
       /\ (last'.op = "Run" /\ selected[last'.cmd] \notin {0, last'.cmd})
          => \E ret \in ExecResults :
                /\ last'.err = RunCmd(selected[last'.cmd], ret, Now).err
                /\ last'.log = RunCmd(selected[last'.cmd], ret, Now).log
      ]_vars

\* the first Parse entered after position i of the events I: the position of
\* the next "bind" or "parsed" event, 0 when there is none
NextParse(I, i) ==
    LET later == {j \in (i + 1)..Len(I) : I[j].ev \in {"bind", "parsed"}}
    IN IF later = {} THEN 0 ELSE CHOOSE j \in later : \A k \in later : j <= k

\* what the Parse of the Command entered last in I returned: nil from the
\* no-op, the error of its FlagSet.Parse, or what it returned as the terminal
ReturnedAt(I, j) ==
    LET d == I[j].cmd
        v == {k \in (j + 1)..Len(I) : I[k].ev = "validate" /\ I[k].cmd = d /\ I[k].err # Nil}
    IN IF I[j].ev = "parsed" THEN Nil
       ELSE IF I[j].err # Nil THEN I[j].err
       ELSE IF ~cmds[d].Exec THEN NoExecError(d)
       ELSE IF v # {} THEN Wrap(ErrInvalidArguments, I[CHOOSE k \in v : TRUE].err)
       ELSE Nil

\* the positional remainder FlagSet.Parse of c leaves of argv
Remainder(c, argv) == FlagSetParse(flagSet[c], argv).args

\* C18: at every Command whose flags a Parse bound, with remainder the
\* positional remainder: when remainder is not empty and its first element names
\* a child, that child's Parse is entered next with exactly remainder[1:], and
\* the call returns what the deepest Parse entered returned; otherwise the
\* Command is terminal, and its validator and its Exec, when called, receive the
\* whole remainder, the unmatched first token included.
C18_ResolutionStep ==
    \A i \in 1..Len(last.log) :
       (/\ last.op \in {"Parse", "ParseAndRun"}
        /\ last.log[i].ev = "bind" /\ last.log[i].err = Nil)
       => LET c == last.log[i].cmd
              remainder == Remainder(c, last.log[i].args)
              j == NextParse(last.log, i)
          IN /\ args[c] = remainder
             /\ IF remainder # <<>> /\ FirstNamed(c, remainder[1]) # 0
                THEN /\ selected[c] = FirstNamed(c, remainder[1])
                     /\ j # 0
                     /\ last.log[j].cmd = selected[c]
                     /\ last.log[j].args = Tail(remainder)
                     /\ \A k \in 1..Len(last.log) :
                           last.log[k].cmd = c => last.log[k].ev = "bind"
                ELSE /\ selected[c] = c
                     /\ j = 0
                     /\ \A k \in 1..Len(last.log) :
                           (last.log[k].cmd = c /\ last.log[k].ev \in {"validate", "exec"})
                           => last.log[k].args = remainder
             /\ j = 0 => last.perr = ReturnedAt(last.log, i)
             /\ (j # 0 /\ NextParse(last.log, j) = 0) => last.perr = ReturnedAt(last.log, j)

\* C18 witness: root -> sub -> x resolved from ["sub", "x"]: each level drops
\* the token that named the child
C18_Witness ==
    /\ last.op = "Parse" /\ last.cmd = Root /\ last.argv = <<Str_sub, Str_x>>
    /\ selected = <<2, 3, 3>>
    /\ args = <<(<<Str_sub, Str_x>>), (<<Str_x>>), (<<>>)>>

\* C18 witness: a root with a child and an Exec, given a token that names no
\* child: the root is the default action and its Exec receives the token
C18_WitnessDefault ==
    /\ last.op = "ParseAndRun" /\ last.cmd = Root /\ last.argv = <<Str_x>>
    /\ cmds[Root].Subcommands = <<2>> /\ cmds[Root].Exec
    /\ selected[Root] = Root
    /\ Only(last.log, "exec") = <<Event("exec", Root, <<Str_x>>, last.err)>>

\* C20: during Parse only the validator of the terminal Command is called: a
\* Command that selected a child never has its validator run, so an ancestor
\* with NoArgs does not reject a remainder that is non-empty because it names
\* the child.
C20_OnlyTerminalValidated ==
    (last.op \in {"Parse", "ParseAndRun"})
    => /\ Len(Only(last.log, "validate")) <= 1
       /\ \A k \in 1..Len(last.log) :
             last.log[k].ev = "validate"
             => /\ selected[last.log[k].cmd] = last.log[k].cmd
                /\ \A c \in Nodes :
                      (BoundIn(last, c) /\ selected[c] # c) => last.log[k].cmd # c
       /\ \A c \in Nodes :
             (BoundIn(last, c) /\ selected[c] # c /\ Rejects(c))
             => \A k \in 1..Len(last.log) : last.log[k].cmd = c => last.log[k].ev = "bind"

\* C20 witness: a root with NoArgs and the remainder ["sub"]: sub was selected
\* and the Parse returned nil
C20_Witness ==
    /\ last.op = "Parse" /\ last.cmd = Root /\ last.argv = <<Str_sub>>
    /\ cmds[Root].ArgsValidator = NoArgs /\ args[Root] = <<Str_sub>>
    /\ selected[Root] = 2 /\ selected[2] = 2
    /\ last.err = Nil
    /\ Only(last.log, "validate") = <<>>

====
